---------------------------- MODULE Spec2Model ----------------------------
(***************************************************************************)
(* Model of the polyfill-discovery and merge pipeline of                   *)
(* scripts/generate-polyfill-mappings.js.                                  *)
(*                                                                         *)
(* Strings are sequences of one-character strings, so that the string      *)
(* operations of the script (toLowerCase, replace, startsWith, sort) are   *)
(* computed character by character.                                        *)
(***************************************************************************)
EXTENDS Integers, Sequences, FiniteSets, TLC

VARIABLES
    pc,             \* position of main() in its body
    fetchOk,        \* response.ok of the remote mapping fetch
    snapshot,       \* state of the mdn-content-temp directory
    clones,         \* number of git clone commands executed
    snapshotItems,  \* the list items that the pages of the snapshot hold
    fi,             \* index of the next feature of the catalog in generateMappings
    slugs,          \* generateMappings: the slugs of the feature being processed
    si,             \* generateMappings: index of the next slug of `slugs`
    reads,          \* number of readFile calls on pages of the snapshot
    allPolyfillLinks, \* generateMappings: the links found for the feature
    selected,       \* generateMappings: what the two slug sources held for the
                    \* feature, at the test of slugs.length
    mappings,       \* the `mappings` object: ordered sequence of [key, fallbacks]
    discovered,     \* the object generateMappings returned (history of `mappings`)
    overridesFile,  \* content of mappings/polyfills-overrides.json
    overrides,      \* the `overrides` object: ordered sequence of [key, value]
    output,         \* content of mappings/polyfills.json
    writes,         \* number of writes of mappings/polyfills.json
    exitCode,       \* process exit code, "running" before the process ends
    env,            \* the remote mapping, the compatibility data, the snapshot
                    \* and the override file when they are fixed for several
                    \* runs; None when every read may meet any content
    run,            \* number of the run of the pipeline
    history,        \* what the earlier runs wrote to polyfills.json
    spc,            \* position of the slugToPath call
    slug,           \* argument of slugToPath
    path,           \* result of slugToPath
    repath,         \* result of slugToPath applied to `path`
    statsPc,        \* generate-npm-stats.js: position of main()
    force,          \* FORCE_REFRESH
    packages,       \* the npm packages of polyfills.json, sorted
    existingStats,  \* what loadExistingStats returned
    stats,          \* fetchAllStats: the `stats` object
    packagesToRefresh, \* fetchAllStats: the packages that need a refresh
    processed,      \* fetchAllStats: number of packages looked up
    retryCount,     \* fetchPackageStats: retryCount of the current call
    responses,      \* the responses that the current lookup retried after
    waits,          \* the waits before the retries of the current lookup
    lookups,        \* the lookups that returned: their responses and waits
    statsFile,      \* content of mappings/npm-stats.json written by the run
    statsExit       \* exit code of generate-npm-stats.js

mainVars == <<pc, fetchOk, snapshot, clones, snapshotItems, fi, slugs, si, reads, allPolyfillLinks, selected, mappings,
              discovered, overridesFile, overrides, output, writes, exitCode,
              env, run, history>>
slugVars == <<spc, slug, path, repath>>
statsVars == <<statsPc, force, packages, existingStats, stats, packagesToRefresh,
               processed, retryCount, responses, waits, lookups, statsFile, statsExit>>
vars == <<mainVars, slugVars, statsVars>>

-----------------------------------------------------------------------------
(* Characters and strings *)

\* The printable ASCII characters in code-unit order, from code 32 (the double
\* quote, the backslash and the backtick, which no string of the model holds,
\* by name).
Ascii ==
    << " ", "!", "QUOTE", "#", "$", "%", "&", "'", "(", ")", "*", "+", ",", "-", ".", "/",
       "0", "1", "2", "3", "4", "5", "6", "7", "8", "9", ":", ";", "<", "=", ">", "?",
       "@", "A", "B", "C", "D", "E", "F", "G", "H", "I", "J", "K", "L", "M", "N", "O",
       "P", "Q", "R", "S", "T", "U", "V", "W", "X", "Y", "Z", "[", "BACKSLASH", "]", "^", "_",
       "BACKTICK", "a", "b", "c", "d", "e", "f", "g", "h", "i", "j", "k", "l", "m", "n", "o",
       "p", "q", "r", "s", "t", "u", "v", "w", "x", "y", "z", "{", "|", "}", "~" >>

\* The UTF-16 code unit of a character.
CharCode(c) == 31 + (CHOOSE i \in 1..Len(Ascii) : Ascii[i] = c)

\* String.prototype.toLowerCase on one character: A-Z (65..90) map to a-z.
LowerChar(c) ==
    LET n == CharCode(c)
    IN  IF n >= 65 /\ n <= 90 THEN Ascii[n + 32 - 31] ELSE c

\* String.prototype.toLowerCase
toLowerCase(s) == [i \in 1..Len(s) |-> LowerChar(s[i])]

\* Whether pat occurs in s at position i (1-based).
MatchesAt(s, pat, i) ==
    /\ i + Len(pat) - 1 <= Len(s)
    /\ \A k \in 1..Len(pat) : s[i + k - 1] = pat[k]

\* String.prototype.includes
Includes(s, pat) == \E i \in 1..(Len(s) + 1) : MatchesAt(s, pat, i)

\* String.prototype.startsWith
StartsWith(s, pat) == MatchesAt(s, pat, 1)

\* String.prototype.replace with a global literal pattern: the matches are
\* found left to right and do not overlap.
RECURSIVE ReplaceFrom(_, _, _, _)
ReplaceFrom(s, pat, rep, i) ==
    IF i > Len(s) THEN <<>>
    ELSE IF MatchesAt(s, pat, i)
         THEN rep \o ReplaceFrom(s, pat, rep, i + Len(pat))
         ELSE <<s[i]>> \o ReplaceFrom(s, pat, rep, i + 1)

ReplaceAll(s, pat, rep) == ReplaceFrom(s, pat, rep, 1)

\* The order of two strings under the default comparison of Array.prototype.sort
\* (code units, left to right; a proper prefix comes first).
RECURSIVE LexLess(_, _)
LexLess(a, b) ==
    IF Len(b) = 0 THEN FALSE
    ELSE IF Len(a) = 0 THEN TRUE
    ELSE IF a[1] = b[1] THEN LexLess(Tail(a), Tail(b))
    ELSE CharCode(a[1]) < CharCode(b[1])

-----------------------------------------------------------------------------
(* slugToPath *)

DoubleColonEscape == <<"_", "d", "o", "u", "b", "l", "e", "c", "o", "l", "o", "n", "_">>
ColonEscape == <<"_", "c", "o", "l", "o", "n", "_">>
StarEscape == <<"_", "s", "t", "a", "r", "_">>

\* A slip: the single colon is escaped before the double colon.
slugToPathColonFirst(s) ==
    ReplaceAll(
        ReplaceAll(
            ReplaceAll(toLowerCase(s), <<":">>, ColonEscape),
            <<":", ":">>, DoubleColonEscape),
        <<"*">>, StarEscape)

\* A slip: the star is escaped with the colon's escape substring.
slugToPathStarAsColon(s) ==
    ReplaceAll(
        ReplaceAll(
            ReplaceAll(toLowerCase(s), <<":", ":">>, DoubleColonEscape),
            <<":">>, ColonEscape),
        <<"*">>, ColonEscape)

slugToPath(s) ==
    ReplaceAll(
        ReplaceAll(
            ReplaceAll(toLowerCase(s), <<":", ":">>, DoubleColonEscape),
            <<":">>, ColonEscape),
        <<"*">>, StarEscape)

\* Slugs are built from these pieces: the tokens (two colons in a row make the
\* double colon), an underscore, the word of the colon's escape substring, and
\* a letter in upper and in lower case.
MaxSlugPieces == 3

SlugPieces ==
    { <<":">>, <<"*">>, <<"_">>, <<"c", "o", "l", "o", "n">>, <<"S">>, <<"s">> }

RECURSIVE Flatten(_)
Flatten(ps) == IF Len(ps) = 0 THEN <<>> ELSE Head(ps) \o Flatten(Tail(ps))

SlugInputs ==
    { Flatten(ps) : ps \in UNION { [1..n -> SlugPieces] : n \in 0..MaxSlugPieces } }

\* slugToPath and toLowerCase of every slug of the universe.
SlugPathTable == [t \in SlugInputs |-> slugToPath(t)]
SlugLowerTable == [t \in SlugInputs |-> toLowerCase(t)]

SlugIdle == spc = "idle" /\ slug = <<>> /\ path = <<>> /\ repath = <<>>

SlugInit == spc = "input" /\ slug \in SlugInputs /\ path = <<>> /\ repath = <<>>

\* findPolyfills resolves the slug of a documentation page to its directory.
ConvertSlug ==
    /\ spc = "input"
    /\ path' = slugToPath(slug)
    /\ spc' = "converted"
    /\ UNCHANGED <<slug, repath, mainVars, statsVars>>

\* slugToPath applied to a path it returned.
ConvertPath ==
    /\ spc = "converted"
    /\ repath' = slugToPath(path)
    /\ spc' = "reconverted"
    /\ UNCHANGED <<slug, path, mainVars, statsVars>>

SlugNext == ConvertSlug \/ ConvertPath

-----------------------------------------------------------------------------
(* Optional values: a missing property, null or undefined is None. *)

None == <<>>
Some(x) == <<x>>
IsSome(o) == Len(o) = 1
Get(o) == o[1]

-----------------------------------------------------------------------------
(* JavaScript objects with string keys: properties in insertion order.     *)
(* No key of the model is an integer-like string, which an object would    *)
(* order first.                                                            *)

ObjKeys(obj) == [i \in 1..Len(obj) |-> obj[i].key]

ObjHas(obj, k) == \E i \in 1..Len(obj) : obj[i].key = k

ObjIndex(obj, k) == CHOOSE i \in 1..Len(obj) : obj[i].key = k

ObjGet(obj, k) == obj[ObjIndex(obj, k)].value

\* obj[k] = v: an existing property keeps its place, a new one goes last.
ObjSet(obj, k, v) ==
    IF ObjHas(obj, k)
    THEN [obj EXCEPT ![ObjIndex(obj, k)] = [key |-> k, value |-> v]]
    ELSE Append(obj, [key |-> k, value |-> v])

\* delete obj[k]
ObjDelete(obj, k) == SelectSeq(obj, LAMBDA e : e.key # k)

\* Array.prototype.sort with the default comparison, by insertion.
RECURSIVE InsertSorted(_, _)
InsertSorted(sorted, k) ==
    IF Len(sorted) = 0 THEN <<k>>
    ELSE IF LexLess(k, Head(sorted)) THEN <<k>> \o sorted
    ELSE <<Head(sorted)>> \o InsertSorted(Tail(sorted), k)

RECURSIVE SortStrings(_)
SortStrings(ks) ==
    IF Len(ks) = 0 THEN <<>>
    ELSE InsertSorted(SortStrings(SubSeq(ks, 1, Len(ks) - 1)), ks[Len(ks)])

IsSorted(ks) == \A i \in 1..(Len(ks) - 1) : LexLess(ks[i], ks[i + 1])

-----------------------------------------------------------------------------
(* URLs and the documentation pages *)

Https == <<"h", "t", "t", "p", "s", ":", "/", "/">>
MdnHost == <<"d", "e", "v", "e", "l", "o", "p", "e", "r", ".", "m", "o", "z", "i", "l", "l", "a", ".", "o", "r", "g">>
NpmPrefix == <<"n", "p", "m", "j", "s", ".", "c", "o", "m", "/", "p", "a", "c", "k", "a", "g", "e", "/">>
GithubPrefix == <<"g", "i", "t", "h", "u", "b", ".", "c", "o", "m", "/">>
PolyfillWord == <<"p", "o", "l", "y", "f", "i", "l", "l">>
GitSuffix == <<".", "g", "i", "t">>

\* https://www.npmjs.com/package/io
UrlNpm == Https \o <<"w", "w", "w", ".">> \o NpmPrefix \o <<"i", "o">>
\* https://github.com/o/Polyfill.git
UrlGithub == Https \o GithubPrefix \o <<"o", "/", "P", "o", "l", "y", "f", "i", "l", "l">> \o GitSuffix
\* https://developer.mozilla.org/x
UrlMdn == Https \o MdnHost \o <<"/", "x">>
\* https://e.io
UrlPlain == Https \o <<"e", ".", "i", "o">>

\* A list item of a "See also" section: its prose and its links, in order.
ItemNpm == [prose |-> <<"a", " ">> \o PolyfillWord,
            links |-> << [text |-> <<"i", "o">>, url |-> UrlNpm] >>]
ItemGithub == [prose |-> <<>>,
               links |-> << [text |-> <<"g", "h">>, url |-> UrlGithub] >>]
ItemOther == [prose |-> <<"s", "e", "e">>,
              links |-> << [text |-> <<"m">>, url |-> UrlMdn],
                           [text |-> <<"e">>, url |-> UrlPlain] >>]

PageItems == {ItemNpm, ItemGithub, ItemOther}

\* https://e.io/developer.mozilla.org/polyfill: a page of another host that
\* names the documentation site in its path.
UrlMirror == Https \o <<"e", ".", "i", "o", "/">> \o MdnHost \o <<"/">> \o PolyfillWord
\* https://www.npmjs.com/package/x?github.com/o/r
UrlBoth == Https \o <<"w", "w", "w", ".">> \o NpmPrefix \o <<"x", "?">> \o GithubPrefix \o <<"o", "/", "r">>

ItemMirror == [prose |-> <<>>,
               links |-> << [text |-> <<"m", "i">>, url |-> UrlMirror] >>]
\* The package of ItemNpm once more, in other words.
ItemNpmAgain == [prose |-> <<"s", "e", "e">>,
                 links |-> << [text |-> <<"i", "o">>, url |-> UrlNpm] >>]
\* The word in the prose only, with a capital.
ItemProse == [prose |-> <<"A", " ", "P", "o", "l", "y", "f", "i", "l", "l">>,
              links |-> << [text |-> <<"e">>, url |-> UrlPlain] >>]
ItemBoth == [prose |-> <<>>,
             links |-> << [text |-> <<"x">>, url |-> UrlBoth] >>]

\* Every list item of the model.
FindItems == PageItems \cup {ItemMirror, ItemNpmAgain, ItemProse, ItemBoth}

MaxItems == 2

\* The index.md of a slug, its list items among `items`: missing or unreadable
\* (None), or a page with or without a "See also" section.
Pages(items) ==
    {None} \cup { Some([seeAlso |-> b, items |-> its]) :
                    b \in BOOLEAN,
                    its \in UNION { [1..n -> items] : n \in 0..MaxItems } }

RECURSIVE ConcatMap(_, _)
ConcatMap(F(_), xs) == IF Len(xs) = 0 THEN <<>> ELSE F(Head(xs)) \o ConcatMap(F, Tail(xs))

RenderLink(l) == <<"[">> \o l.text \o <<"]", "(">> \o l.url \o <<")">>

\* The markdown of a list item.
ItemMarkdown(item) ==
    <<"-", " ">> \o item.prose \o ConcatMap(LAMBDA l : <<" ">> \o RenderLink(l), item.links)

RECURSIVE TrimLeft(_)
TrimLeft(s) == IF Len(s) > 0 /\ Head(s) = " " THEN TrimLeft(Tail(s)) ELSE s

\* fullText: the bullet removed, every link replaced by its text, trimmed.
ItemText(item) ==
    TrimLeft(item.prose \o ConcatMap(LAMBDA l : <<" ">> \o l.text, item.links))

\* The scheme the link pattern accepts: (https?:[^\)]+)
IsHttp(url) == StartsWith(url, <<"h", "t", "t", "p", ":">>) \/ StartsWith(url, <<"h", "t", "t", "p", "s", ":">>)

isPolyfill(item, url) ==
    \/ Includes(toLowerCase(url), PolyfillWord)
    \/ Includes(toLowerCase(ItemMarkdown(item)), PolyfillWord)
    \/ Includes(url, NpmPrefix)

ItemLinks(item) ==
    ConcatMap(LAMBDA l :
                IF ~IsHttp(l.url) THEN <<>>
                ELSE IF Includes(l.url, MdnHost) THEN <<>>
                ELSE IF isPolyfill(item, l.url)
                     THEN << [url |-> l.url, text |-> ItemText(item)] >>
                     ELSE <<>>,
              item.links)

\* A slip: the list items are looked for in the whole page, with or without
\* a "See also" section.
findPolyfillsWholePage(page) ==
    IF ~IsSome(page) THEN <<>>
    ELSE ConcatMap(ItemLinks, Get(page).items)

findPolyfills(page) ==
    IF ~IsSome(page) THEN <<>>
    ELSE IF ~Get(page).seeAlso THEN <<>>
    ELSE ConcatMap(ItemLinks, Get(page).items)

\* findPolyfills of every page of the snapshot.
PolyfillLinksTable == [page \in Pages(FindItems) |-> findPolyfills(page)]

-----------------------------------------------------------------------------
(* extractNpmPackage, extractGithubRepo *)

\* [^\/\?#]
IsNameChar(c) == c \notin {"/", "?", "#"}

\* The index after the longest run of [^\/\?#] from j.
NameRunEnd(s, j) ==
    CHOOSE k \in j..(Len(s) + 1) :
        /\ k = Len(s) + 1 \/ ~IsNameChar(s[k])
        /\ \A m \in j..(k - 1) : IsNameChar(s[m])

\* The index after the longest run of [^\/] from j.
SegmentRunEnd(s, j) ==
    CHOOSE k \in j..(Len(s) + 1) :
        /\ k = Len(s) + 1 \/ s[k] = "/"
        /\ \A m \in j..(k - 1) : s[m] # "/"

SetMin(S) == CHOOSE x \in S : \A y \in S : x <= y

\* url.match(/npmjs\.com\/package\/(@?[^\/\?#]+(?:\/[^\/\?#]+)?)/)
extractNpmPackage(url) ==
    LET n == Len(NpmPrefix)
        starts == { i \in 1..Len(url) :
                      /\ MatchesAt(url, NpmPrefix, i)
                      /\ i + n <= Len(url)
                      /\ IsNameChar(url[i + n]) }
    IN  IF starts = {} THEN None
        ELSE LET j == SetMin(starts) + n
                 e1 == NameRunEnd(url, j)
                 e2 == IF /\ e1 + 1 <= Len(url)
                          /\ url[e1] = "/"
                          /\ IsNameChar(url[e1 + 1])
                       THEN NameRunEnd(url, e1 + 1)
                       ELSE e1
             IN  Some(SubSeq(url, j, e2 - 1))

EndsWith(s, suf) == Len(s) >= Len(suf) /\ MatchesAt(s, suf, Len(s) - Len(suf) + 1)

\* A slip: the match as it stands, a trailing ".git" included.
extractGithubRepoKeepsSuffix(url) ==
    LET n == Len(GithubPrefix)
        OwnerEnd(i) == SegmentRunEnd(url, i + n)
        starts == { i \in 1..Len(url) :
                      /\ MatchesAt(url, GithubPrefix, i)
                      /\ i + n <= Len(url)
                      /\ url[i + n] # "/"
                      /\ OwnerEnd(i) + 1 <= Len(url)
                      /\ IsNameChar(url[OwnerEnd(i) + 1]) }
    IN  IF starts = {} THEN None
        ELSE LET i == SetMin(starts)
             IN  Some(SubSeq(url, i + n, NameRunEnd(url, OwnerEnd(i) + 1) - 1))

\* url.match(/github\.com\/([^\/]+\/[^\/\?#]+)/), then .replace(/\.git$/, '')
extractGithubRepo(url) ==
    LET n == Len(GithubPrefix)
        OwnerEnd(i) == SegmentRunEnd(url, i + n)
        starts == { i \in 1..Len(url) :
                      /\ MatchesAt(url, GithubPrefix, i)
                      /\ i + n <= Len(url)
                      /\ url[i + n] # "/"
                      /\ OwnerEnd(i) + 1 <= Len(url)
                      /\ IsNameChar(url[OwnerEnd(i) + 1]) }
    IN  IF starts = {} THEN None
        ELSE LET i == SetMin(starts)
                 m == SubSeq(url, i + n, NameRunEnd(url, OwnerEnd(i) + 1) - 1)
             IN  Some(IF EndsWith(m, GitSuffix)
                      THEN SubSeq(m, 1, Len(m) - Len(GitSuffix))
                      ELSE m)

-----------------------------------------------------------------------------
(* generateMappings *)

\* The ids of the feature catalog, in the catalog's own order.
Catalog == << <<"b">>, <<"a", "b">> >>

\* The slug of the documents of the remote mapping, and the slug that the
\* compatibility data yields.
DocsSlug == <<"W", "e", "b", "/", "S", "e", "t">>
BcdSlug == <<"W", "e", "b", "/", ":", "i", "s">>

MaxSlugs == 2

\* mdnDocsMapping[featureId]: undefined, or the slugs of its documents.
DocsEntries == {None} \cup { Some([i \in 1..n |-> DocsSlug]) : n \in 0..MaxSlugs }

\* The slug of a second compatibility key.
BcdSlugSecond == <<"W", "e", "b", "/", "x">>

\* The two forms of an mdn_url of the compatibility data.
UrlDocsEnUs == Https \o MdnHost \o <<"/", "e", "n", "-", "U", "S", "/", "d", "o", "c", "s", "/">> \o BcdSlug
UrlDocsPlain == Https \o MdnHost \o <<"/", "d", "o", "c", "s", "/">> \o BcdSlugSecond

\* What the compatibility data holds for a key: no data or no mdn_url (None),
\* or the mdn_url.
CompatUrls == {None, Some(UrlDocsEnUs), Some(UrlDocsPlain)}

MaxCompat == 2

\* feature.compat_features, each key with what the compatibility data holds.
CompatFeatures == UNION { [1..n -> CompatUrls] : n \in 0..MaxCompat }

\* url.replace(/^https:\/\/developer\.mozilla\.org\/(en-US\/)?docs\//, '')
StripDocsPrefix(url) ==
    LET withLocale == Https \o MdnHost \o <<"/", "e", "n", "-", "U", "S", "/", "d", "o", "c", "s", "/">>
        plain == Https \o MdnHost \o <<"/", "d", "o", "c", "s", "/">>
    IN  IF StartsWith(url, withLocale) THEN SubSeq(url, Len(withLocale) + 1, Len(url))
        ELSE IF StartsWith(url, plain) THEN SubSeq(url, Len(plain) + 1, Len(url))
        ELSE url

\* getMDNSlug(featureId): null, or the slug of the first compatibility key.
getMDNSlug(compat) ==
    IF Len(compat) = 0 THEN None
    ELSE IF ~IsSome(compat[1]) THEN None
    ELSE Some(StripDocsPrefix(Get(compat[1])))

BcdSlugs == { getMDNSlug(compat) : compat \in CompatFeatures }

\* The slugs of a feature: those of the remote mapping when its entry is
\* truthy (an empty array is), else the slug of the compatibility data.
SlugsOf(docs, bcdSlug) ==
    IF IsSome(docs) THEN Get(docs)
    ELSE IF IsSome(bcdSlug) /\ Len(Get(bcdSlug)) > 0 THEN <<Get(bcdSlug)>>
    ELSE <<>>

\* A slip: every link found is kept.
DedupeKeepAll(links) == links

\* Array.from(new Map(links.map(link => [link.url, link])).values()): a url
\* keeps the place of its first link and the value of its last.
\* A slip: the first occurrence of a url wins, as in a filter on a seen set.
DedupeKeepFirst(links) ==
    SelectSeq([i \in 1..Len(links) |-> IF \A j \in 1..(i - 1) : links[j].url # links[i].url
                                        THEN links[i] ELSE [url |-> <<>>, text |-> <<>>]],
              LAMBDA l : l.url # <<>>)

DedupeByUrl(links) ==
    LET firsts == SelectSeq([i \in 1..Len(links) |-> i],
                            LAMBDA i : \A j \in 1..(i - 1) : links[j].url # links[i].url)
        LastOf(u) == CHOOSE j \in 1..Len(links) :
                        /\ links[j].url = u
                        /\ \A k \in (j + 1)..Len(links) : links[k].url # u
    IN  [n \in 1..Len(firsts) |-> links[LastOf(links[firsts[n]].url)]]

ToFallback(link) ==
    [type |-> "polyfill",
     url |-> link.url,
     npm |-> extractNpmPackage(link.url),
     github |-> extractGithubRepo(link.url),
     description |-> IF Len(link.text) > 0 THEN Some(link.text) ELSE None]

\* A slip: the keys are returned in discovery order.
SortByKeyUnsorted(obj) == obj

\* Object.keys(mappings).sort().reduce(...): the same properties, keys ascending.
SortByKey(obj) ==
    LET ks == SortStrings(ObjKeys(obj))
    IN  [i \in 1..Len(ks) |-> [key |-> ks[i], value |-> ObjGet(obj, ks[i])]]

\* What the reads of a run meet: anything, or what the fixed environment
\* holds. The page of a slug is the index.md of the directory slugToPath
\* names.
DocsChoices(i) == IF IsSome(env) THEN {Get(env).docs[i]} ELSE DocsEntries
CompatChoices(i) == IF IsSome(env) THEN {Get(env).compat[i]} ELSE CompatFeatures
PageChoices(s) == IF IsSome(env) THEN {Get(env).pages[slugToPath(s)]} ELSE Pages(snapshotItems)

\* The head of the feature loop: the slugs of the next feature.
SelectSlugs ==
    /\ pc = "generate"
    /\ fi <= Len(Catalog)
    /\ \E docs \in DocsChoices(fi), compat \in CompatChoices(fi) :
          LET found == SlugsOf(docs, getMDNSlug(compat))
          IN  /\ selected' = Some([docs |-> docs, bcdSlug |-> getMDNSlug(compat),
                                   skipped |-> Len(found) = 0])
              /\ IF Len(found) = 0
                 THEN /\ fi' = fi + 1
                      /\ UNCHANGED <<pc, slugs, si, allPolyfillLinks>>
                 ELSE /\ pc' = "slugs"
                      /\ slugs' = found
                      /\ si' = 1
                      /\ allPolyfillLinks' = <<>>
                      /\ UNCHANGED fi
    /\ UNCHANGED <<fetchOk, snapshot, clones, snapshotItems, reads, mappings,
                   discovered, overridesFile, overrides, output,
                   writes, exitCode, env, run, history,
                   slugVars, statsVars>>

\* A slip: the pages of two slugs are read together, as with Promise.all.
FindPolyfillsTogether ==
    /\ pc = "slugs"
    /\ si <= Len(slugs)
    /\ LET n == IF si + 1 <= Len(slugs) THEN 2 ELSE 1
       IN  /\ \E page \in PageChoices(slugs[si]), other \in PageChoices(slugs[si + n - 1]) :
                 allPolyfillLinks' = allPolyfillLinks \o PolyfillLinksTable[page]
                                        \o (IF n = 2 THEN PolyfillLinksTable[other] ELSE <<>>)
           /\ si' = si + n
           /\ reads' = reads + n
    /\ selected' = None
    /\ UNCHANGED <<pc, fetchOk, snapshot, clones, snapshotItems, fi, slugs,
                   mappings, discovered, overridesFile,
                   overrides, output, writes, exitCode, env,
                   run, history, slugVars, statsVars>>

\* One iteration of the slug loop: the page of the slug is read.
FindPolyfills ==
    /\ pc = "slugs"
    /\ si <= Len(slugs)
    /\ \E page \in PageChoices(slugs[si]) :
          allPolyfillLinks' = allPolyfillLinks \o PolyfillLinksTable[page]
    /\ si' = si + 1
    /\ reads' = reads + 1
    /\ selected' = None
    /\ UNCHANGED <<pc, fetchOk, snapshot, clones, snapshotItems, fi, slugs,
                   mappings, discovered, overridesFile,
                   overrides, output, writes, exitCode, env,
                   run, history, slugVars, statsVars>>

\* A slip: a feature without a polyfill link gets an entry as well.
CollectFeatureKeepsEmpty ==
    /\ pc = "slugs"
    /\ si > Len(slugs)
    /\ mappings' =
          LET uniqueLinks == DedupeByUrl(allPolyfillLinks)
          IN  ObjSet(mappings, Catalog[fi],
                     [i \in 1..Len(uniqueLinks) |-> ToFallback(uniqueLinks[i])])
    /\ fi' = fi + 1
    /\ selected' = None
    /\ pc' = "generate"
    /\ UNCHANGED <<fetchOk, snapshot, clones, snapshotItems, slugs, si, reads,
                   allPolyfillLinks, discovered, overridesFile,
                   overrides, output, writes, exitCode, env,
                   run, history, slugVars, statsVars>>

\* The rest of the feature loop's body, after the slug loop.
CollectFeature ==
    /\ pc = "slugs"
    /\ si > Len(slugs)
    /\ mappings' =
          IF Len(allPolyfillLinks) = 0 THEN mappings
          ELSE LET uniqueLinks == DedupeByUrl(allPolyfillLinks)
               IN  ObjSet(mappings, Catalog[fi],
                          [i \in 1..Len(uniqueLinks) |-> ToFallback(uniqueLinks[i])])
    /\ fi' = fi + 1
    /\ selected' = None
    /\ pc' = "generate"
    /\ UNCHANGED <<fetchOk, snapshot, clones, snapshotItems, slugs, si, reads,
                   allPolyfillLinks, discovered, overridesFile,
                   overrides, output, writes, exitCode, env,
                   run, history, slugVars, statsVars>>

\* A slip: the discovered mapping is written to polyfills.json as a checkpoint
\* when generateMappings returns.
ReturnSortedCheckpoint ==
    /\ pc = "generate"
    /\ fi > Len(Catalog)
    /\ mappings' = SortByKey(mappings)
    /\ discovered' = SortByKey(mappings)
    /\ output' = Some(SortByKey(mappings))
    /\ writes' = writes + 1
    /\ slugs' = <<>>
    /\ si' = 1
    /\ allPolyfillLinks' = <<>>
    /\ selected' = None
    /\ pc' = "load"
    /\ UNCHANGED <<fetchOk, snapshot, clones, snapshotItems, fi, reads,
                   overridesFile, overrides, exitCode, env, run,
                   history, slugVars, statsVars>>

\* The feature loop is over: generateMappings returns the sorted object.
ReturnSorted ==
    /\ pc = "generate"
    /\ fi > Len(Catalog)
    /\ mappings' = SortByKey(mappings)
    /\ discovered' = SortByKey(mappings)
    /\ slugs' = <<>>
    /\ si' = 1
    /\ allPolyfillLinks' = <<>>
    /\ selected' = None
    /\ pc' = "load"
    /\ UNCHANGED <<fetchOk, snapshot, clones, snapshotItems, fi, reads,
                   overridesFile, overrides, output, writes,
                   exitCode, env, run, history, slugVars,
                   statsVars>>

-----------------------------------------------------------------------------
(* The override file *)

\* A fallback authored in the override file, with the url of an
\* auto-discovered one, and one with a url of its own.
OverrideFallbackSame ==
    [type |-> "polyfill", url |-> UrlNpm, npm |-> Some(<<"i", "o">>),
     github |-> None, description |-> None]
OverrideFallbackOwn ==
    [type |-> "code", url |-> UrlPlain, npm |-> None,
     github |-> None, description |-> Some(<<"o", "w", "n">>)]

\* The `fallbacks` property of an override entry: missing, or a list.
OverrideFallbacks ==
    { None, Some(<<>>), Some(<<OverrideFallbackOwn, OverrideFallbackSame>>) }

\* An override entry. A flag that is missing or false is FALSE.
OverrideValues ==
    [exclude : BOOLEAN, replace : BOOLEAN, fallbacks : OverrideFallbacks]

\* The keys of the override file: a feature of the catalog, an id that
\* auto-discovery never yields, and a metadata key.
OverrideKeys == { <<"a", "b">>, <<"a">>, <<"_", "a">> }

MaxOverrides == 2

\* The objects JSON.parse can return: properties with distinct keys, in the
\* order of the file.
ParsedObjects ==
    { es \in UNION { [1..n -> [key : OverrideKeys, value : OverrideValues]] :
                        n \in 0..MaxOverrides } :
        \A i, j \in 1..Len(es) : i # j => es[i].key # es[j].key }

\* A slip: the metadata keys are kept.
FilterMetadataKeepAll(parsed) == parsed

\* Object.fromEntries(Object.entries(parsed).filter(([key]) => !key.startsWith("_")))
FilterMetadata(parsed) == SelectSeq(parsed, LAMBDA e : ~StartsWith(e.key, <<"_">>))

\* A slip: augmenting appends to the list that polyfills.json holds for the
\* feature.
MergeOverrideOntoOutput(m, featureId, override) ==
    IF override.exclude
    THEN ObjDelete(m, featureId)
    ELSE IF IsSome(override.fallbacks)
    THEN IF override.replace
         THEN ObjSet(m, featureId, Get(override.fallbacks))
         ELSE IF ObjHas(Get(output), featureId)
              THEN ObjSet(m, featureId, ObjGet(Get(output), featureId) \o Get(override.fallbacks))
              ELSE IF ObjHas(m, featureId)
              THEN ObjSet(m, featureId, ObjGet(m, featureId) \o Get(override.fallbacks))
              ELSE ObjSet(m, featureId, Get(override.fallbacks))
    ELSE m

\* A slip: the fallbacks are looked at before the exclude flag.
MergeOverrideFallbacksFirst(m, featureId, override) ==
    IF IsSome(override.fallbacks)
    THEN IF override.replace
         THEN ObjSet(m, featureId, Get(override.fallbacks))
         ELSE IF ObjHas(m, featureId)
              THEN ObjSet(m, featureId, ObjGet(m, featureId) \o Get(override.fallbacks))
              ELSE ObjSet(m, featureId, Get(override.fallbacks))
    ELSE IF override.exclude
    THEN ObjDelete(m, featureId)
    ELSE m

\* A slip: the replace flag is not looked at.
MergeOverrideReplaceAppends(m, featureId, override) ==
    IF override.exclude
    THEN ObjDelete(m, featureId)
    ELSE IF IsSome(override.fallbacks)
    THEN IF ObjHas(m, featureId)
         THEN ObjSet(m, featureId, ObjGet(m, featureId) \o Get(override.fallbacks))
         ELSE ObjSet(m, featureId, Get(override.fallbacks))
    ELSE m

\* A slip: augmenting skips the fallbacks whose url is already listed.
MergeOverrideAugmentDedupes(m, featureId, override) ==
    IF override.exclude
    THEN ObjDelete(m, featureId)
    ELSE IF IsSome(override.fallbacks)
    THEN IF override.replace
         THEN ObjSet(m, featureId, Get(override.fallbacks))
         ELSE IF ObjHas(m, featureId)
              THEN ObjSet(m, featureId,
                          ObjGet(m, featureId) \o
                          SelectSeq(Get(override.fallbacks),
                                    LAMBDA f : \A i \in 1..Len(ObjGet(m, featureId)) :
                                                  ObjGet(m, featureId)[i].url # f.url))
              ELSE ObjSet(m, featureId, Get(override.fallbacks))
    ELSE m

\* A slip: an entry without fallbacks sets an empty list.
MergeOverrideDefaultsEmpty(m, featureId, override) ==
    IF override.exclude
    THEN ObjDelete(m, featureId)
    ELSE IF IsSome(override.fallbacks)
    THEN IF override.replace
         THEN ObjSet(m, featureId, Get(override.fallbacks))
         ELSE IF ObjHas(m, featureId)
              THEN ObjSet(m, featureId, ObjGet(m, featureId) \o Get(override.fallbacks))
              ELSE ObjSet(m, featureId, Get(override.fallbacks))
    ELSE ObjSet(m, featureId, <<>>)

\* A slip: replace mode starts the whole mapping afresh.
MergeOverrideReplaceClears(m, featureId, override) ==
    IF override.exclude
    THEN ObjDelete(m, featureId)
    ELSE IF IsSome(override.fallbacks)
    THEN IF override.replace
         THEN ObjSet(<<>>, featureId, Get(override.fallbacks))
         ELSE IF ObjHas(m, featureId)
              THEN ObjSet(m, featureId, ObjGet(m, featureId) \o Get(override.fallbacks))
              ELSE ObjSet(m, featureId, Get(override.fallbacks))
    ELSE m

\* One iteration of the merge loop of main: the mappings after it.
MergeOverride(m, featureId, override) ==
    IF override.exclude
    THEN ObjDelete(m, featureId)
    ELSE IF IsSome(override.fallbacks)
    THEN IF override.replace
         THEN ObjSet(m, featureId, Get(override.fallbacks))
         ELSE IF ObjHas(m, featureId)
              THEN ObjSet(m, featureId, ObjGet(m, featureId) \o Get(override.fallbacks))
              ELSE ObjSet(m, featureId, Get(override.fallbacks))
    ELSE m

\* The merge loop of main: the entries are merged one after another.
RECURSIVE MergeAll(_, _)
MergeAll(m, entries) ==
    IF Len(entries) = 0 THEN m
    ELSE MergeAll(MergeOverride(m, Head(entries).key, Head(entries).value), Tail(entries))

-----------------------------------------------------------------------------
(* main *)

\* What mappings/polyfills.json holds before the run: the mapping of an
\* earlier run.
PreviousOutput == Some(<< [key |-> <<"z">>, value |-> <<>>] >>)

MainInit ==
    /\ pc = "fetch"
    /\ fetchOk = "pending"
    /\ snapshot \in {"present", "absent"}
    /\ clones = 0
    /\ snapshotItems = {ItemNpm, ItemOther}
    /\ fi = 1
    /\ slugs = <<>>
    /\ si = 1
    /\ reads = 0
    /\ allPolyfillLinks = <<>>
    /\ selected = None
    /\ mappings = <<>>
    /\ discovered = <<>>
    /\ overridesFile = [state |-> "unread", entries |-> <<>>]
    /\ overrides = <<>>
    /\ output = PreviousOutput
    /\ writes = 0
    /\ exitCode = None
    /\ env = None
    /\ run = 1
    /\ history = <<>>

MainIdle ==
    /\ pc = "idle"
    /\ fetchOk = "pending"
    /\ snapshot = "present"
    /\ clones = 0
    /\ snapshotItems = {}
    /\ fi = 1
    /\ slugs = <<>>
    /\ si = 1
    /\ reads = 0
    /\ allPolyfillLinks = <<>>
    /\ selected = None
    /\ mappings = <<>>
    /\ discovered = <<>>
    /\ overridesFile = [state |-> "unread", entries |-> <<>>]
    /\ overrides = <<>>
    /\ output = PreviousOutput
    /\ writes = 0
    /\ exitCode = None
    /\ env = None
    /\ run = 1
    /\ history = <<>>

\* fetchMDNDocsMapping: the response is ok.
FetchOk ==
    /\ pc = "fetch"
    /\ fetchOk' = "ok"
    /\ pc' = "ensure"
    /\ UNCHANGED <<snapshot, clones, snapshotItems, fi, slugs, si, reads,
                   allPolyfillLinks, selected, mappings,
                   discovered, overridesFile, overrides, output,
                   writes, exitCode, env, run, history,
                   slugVars, statsVars>>

\* A slip: a response that is not ok is logged and main goes on.
FetchFailContinues ==
    /\ pc = "fetch"
    /\ fetchOk' = "failed"
    /\ pc' = "ensure"
    /\ UNCHANGED <<snapshot, clones, snapshotItems, fi, slugs, si, reads,
                   allPolyfillLinks, selected, mappings,
                   discovered, overridesFile, overrides, output,
                   writes, exitCode, env, run, history,
                   slugVars, statsVars>>

\* fetchMDNDocsMapping throws; main().catch exits with code 1.
FetchFail ==
    /\ pc = "fetch"
    /\ fetchOk' = "failed"
    /\ pc' = "failed"
    /\ exitCode' = Some(1)
    /\ UNCHANGED <<snapshot, clones, snapshotItems, fi, slugs, si, reads,
                   allPolyfillLinks, selected, mappings,
                   discovered, overridesFile, overrides, output,
                   writes, env, run, history, slugVars,
                   statsVars>>

\* A slip: the directory is taken to exist without fs.access.
EnsureCachedUnchecked ==
    /\ pc = "ensure"
    /\ pc' = "generate"
    /\ UNCHANGED <<fetchOk, snapshot, clones, snapshotItems, fi, slugs, si, reads,
                   allPolyfillLinks, selected, mappings,
                   discovered, overridesFile, overrides, output,
                   writes, exitCode, env, run, history,
                   slugVars, statsVars>>

\* ensureMDNContent: the directory exists.
EnsureCached ==
    /\ pc = "ensure"
    /\ snapshot = "present"
    /\ pc' = "generate"
    /\ UNCHANGED <<fetchOk, snapshot, clones, snapshotItems, fi, slugs, si, reads,
                   allPolyfillLinks, selected, mappings,
                   discovered, overridesFile, overrides, output,
                   writes, exitCode, env, run, history,
                   slugVars, statsVars>>

\* ensureMDNContent: the directory is absent and git clone succeeds.
CloneOk ==
    /\ pc = "ensure"
    /\ snapshot = "absent"
    /\ clones' = clones + 1
    /\ snapshot' = "present"
    /\ pc' = "generate"
    /\ UNCHANGED <<fetchOk, snapshotItems, fi, slugs, si, reads, allPolyfillLinks,
                   selected, mappings, discovered,
                   overridesFile, overrides, output, writes,
                   exitCode, env, run, history, slugVars,
                   statsVars>>

\* ensureMDNContent: the directory is absent and execSync throws.
CloneFail ==
    /\ pc = "ensure"
    /\ snapshot = "absent"
    /\ clones' = clones + 1
    /\ pc' = "failed"
    /\ exitCode' = Some(1)
    /\ UNCHANGED <<fetchOk, snapshot, snapshotItems, fi, slugs, si, reads,
                   allPolyfillLinks, selected, mappings,
                   discovered, overridesFile, overrides, output,
                   writes, env, run, history, slugVars,
                   statsVars>>

\* The override file does not exist: readFile throws, the catch keeps {}.
LoadMissing ==
    /\ pc = "load"
    /\ IsSome(env) => Get(env).file.state = "missing"
    /\ overridesFile' = [state |-> "missing", entries |-> <<>>]
    /\ overrides' = <<>>
    /\ pc' = "merge"
    /\ UNCHANGED <<fetchOk, snapshot, clones, snapshotItems, fi, slugs, si, reads,
                   allPolyfillLinks, selected, mappings,
                   discovered, output, writes, exitCode, env,
                   run, history, slugVars, statsVars>>

\* The override file is not JSON: JSON.parse throws, the same catch keeps {}.
LoadMalformed ==
    /\ pc = "load"
    /\ IsSome(env) => Get(env).file.state = "malformed"
    /\ overridesFile' = [state |-> "malformed", entries |-> <<>>]
    /\ overrides' = <<>>
    /\ pc' = "merge"
    /\ UNCHANGED <<fetchOk, snapshot, clones, snapshotItems, fi, slugs, si, reads,
                   allPolyfillLinks, selected, mappings,
                   discovered, output, writes, exitCode, env,
                   run, history, slugVars, statsVars>>

\* What JSON.parse of the override file returns.
ParsedChoices ==
    IF ~IsSome(env) THEN ParsedObjects
    ELSE IF Get(env).file.state = "parsed" THEN {Get(env).file.entries}
    ELSE {}

\* The override file parses to an object.
LoadParsed ==
    /\ pc = "load"
    /\ \E parsed \in ParsedChoices :
          /\ overridesFile' = [state |-> "parsed", entries |-> parsed]
          /\ overrides' = FilterMetadata(parsed)
    /\ pc' = "merge"
    /\ UNCHANGED <<fetchOk, snapshot, clones, snapshotItems, fi, slugs, si, reads,
                   allPolyfillLinks, selected, mappings,
                   discovered, output, writes, exitCode, env,
                   run, history, slugVars, statsVars>>

\* The merge loop over Object.entries(overrides), in the order of the file.
MergeOverrides ==
    /\ pc = "merge"
    /\ mappings' = MergeAll(mappings, overrides)
    /\ pc' = "write"
    /\ UNCHANGED <<fetchOk, snapshot, clones, snapshotItems, fi, slugs, si, reads,
                   allPolyfillLinks, selected, discovered,
                   overridesFile, overrides, output, writes,
                   exitCode, env, run, history, slugVars,
                   statsVars>>

\* fs.mkdir of the output directory throws; main().catch exits with code 1.
MkdirFail ==
    /\ pc = "write"
    /\ pc' = "failed"
    /\ exitCode' = Some(1)
    /\ UNCHANGED <<fetchOk, snapshot, clones, snapshotItems, fi, slugs, si, reads,
                   allPolyfillLinks, selected, mappings,
                   discovered, overridesFile, overrides, output,
                   writes, env, run, history, slugVars,
                   statsVars>>

\* polyfills.json is written and the process ends.
WriteOutput ==
    /\ pc = "write"
    /\ output' = Some(mappings)
    /\ writes' = writes + 1
    /\ exitCode' = Some(0)
    /\ pc' = "done"
    /\ UNCHANGED <<fetchOk, snapshot, clones, snapshotItems, fi, slugs, si, reads,
                   allPolyfillLinks, selected, mappings,
                   discovered, overridesFile, overrides, env,
                   run, history, slugVars, statsVars>>

-----------------------------------------------------------------------------
(* scripts/generate-npm-stats.js *)

DELAY_MS == 750
MAX_RETRIES == 2
ONE_WEEK_MS == 604800000

\* new Date(): the time of the run, in milliseconds.
Now == 2 * ONE_WEEK_MS

PackageIo == <<"i", "o">>
PackageScoped == <<"@", "s", "/", "p">>

\* A fallback of polyfills.json with a scoped npm package.
FallbackScoped ==
    [type |-> "polyfill", url |-> UrlGithub, npm |-> Some(PackageScoped),
     github |-> None, description |-> None]

\* The fallbacks of polyfills.json: with the package io, with a scoped
\* package, without a package.
StatsFallbacks == {OverrideFallbackSame, FallbackScoped, OverrideFallbackOwn}

MaxFallbacks == 2

\* polyfills.json: two features, each with a list of fallbacks.
PolyfillFiles ==
    LET lists == UNION { [1..n -> StatsFallbacks] : n \in 0..MaxFallbacks }
    IN  { << [key |-> <<"a">>, value |-> fa], [key |-> <<"b">>, value |-> fb] >> :
            fa \in lists, fb \in lists }

\* Array.from(new Set(...)): the first occurrence of every element, in order.
Unique(xs) ==
    LET firsts == SelectSeq([i \in 1..Len(xs) |-> i],
                            LAMBDA i : \A j \in 1..(i - 1) : xs[j] # xs[i])
    IN  [n \in 1..Len(firsts) |-> xs[firsts[n]]]

extractNpmPackages(polyfillMappings) ==
    LET NpmOf(fallback) == IF IsSome(fallback.npm) THEN <<Get(fallback.npm)>> ELSE <<>>
        OfFeature(feature) == ConcatMap(NpmOf, feature.value)
    IN  SortStrings(Unique(ConcatMap(OfFeature, polyfillMappings)))

\* The records of npm-stats.json: without a timestamp, a moment old, exactly
\* one week old, older than a week, and the record of a failed lookup.
ExistingRecords ==
    { [downloads |-> Some(5), lastModified |-> None],
      [downloads |-> Some(5), lastModified |-> Some(Now - 1)],
      [downloads |-> Some(5), lastModified |-> Some(Now - ONE_WEEK_MS)],
      [downloads |-> Some(5), lastModified |-> Some(Now - ONE_WEEK_MS - 1)],
      [downloads |-> None, lastModified |-> Some(Now - ONE_WEEK_MS - 1)] }

\* What loadExistingStats returns: {} when the file is missing or invalid,
\* else its records.
ExistingStatsObjects ==
    { es \in UNION { [1..n -> [key : {PackageIo, PackageScoped}, value : ExistingRecords]] :
                        n \in 0..2 } :
        \A i, j \in 1..Len(es) : i # j => es[i].key # es[j].key }

\* A slip: a record exactly one week old counts as stale.
needsRefreshAtOneWeek(packageName, existing, forceRefresh) ==
    \/ forceRefresh
    \/ ~ObjHas(existing, packageName)
    \/ ~IsSome(ObjGet(existing, packageName).lastModified)
    \/ Now - Get(ObjGet(existing, packageName).lastModified) >= ONE_WEEK_MS

needsRefresh(packageName, existing, forceRefresh) ==
    \/ forceRefresh
    \/ ~ObjHas(existing, packageName)
    \/ ~IsSome(ObjGet(existing, packageName).lastModified)
    \/ Now - Get(ObjGet(existing, packageName).lastModified) > ONE_WEEK_MS

\* What one request can meet: fetch throws; a status 404, 429 or 500; a status
\* 200 whose body is not JSON, has a download count, has downloads: null, or
\* has no downloads property.
Responses ==
    { [kind |-> "network-error", downloads |-> None],
      [kind |-> "404", downloads |-> None],
      [kind |-> "429", downloads |-> None],
      [kind |-> "500", downloads |-> None],
      [kind |-> "200-not-json", downloads |-> None],
      [kind |-> "200-count", downloads |-> Some(0)],
      [kind |-> "200-count", downloads |-> Some(9)],
      [kind |-> "200-null", downloads |-> None],
      [kind |-> "200-no-downloads", downloads |-> None] }

\* A slip: a lookup that returned null always sets the record.
RecordLookupAlwaysNull(st, packageName, response) ==
    IF response.kind = "200-count"
    THEN ObjSet(st, packageName, [downloads |-> response.downloads, lastModified |-> Some(Now)])
    ELSE ObjSet(st, packageName, [downloads |-> None, lastModified |-> Some(Now)])

\* A slip: a lookup that returned null records nothing.
RecordLookupSkipsUnknown(st, packageName, response) ==
    IF response.kind = "200-count"
    THEN ObjSet(st, packageName, [downloads |-> response.downloads, lastModified |-> Some(Now)])
    ELSE st

\* fetchAllStats: the `stats` object after a lookup returned.
RecordLookup(st, packageName, response) ==
    IF response.kind = "200-count"
    THEN ObjSet(st, packageName, [downloads |-> response.downloads, lastModified |-> Some(Now)])
    ELSE IF ~ObjHas(st, packageName)
    THEN ObjSet(st, packageName, [downloads |-> None, lastModified |-> Some(Now)])
    ELSE st

StatsIdle ==
    /\ statsPc = "idle"
    /\ force = FALSE
    /\ packages = <<>>
    /\ existingStats = <<>>
    /\ stats = <<>>
    /\ packagesToRefresh = <<>>
    /\ processed = 0
    /\ retryCount = 0
    /\ responses = <<>>
    /\ waits = <<>>
    /\ lookups = <<>>
    /\ statsFile = None
    /\ statsExit = None

StatsMainInit ==
    /\ statsPc = "load"
    /\ force \in BOOLEAN
    /\ packages = <<>>
    /\ existingStats = <<>>
    /\ stats = <<>>
    /\ packagesToRefresh = <<>>
    /\ processed = 0
    /\ retryCount = 0
    /\ responses = <<>>
    /\ waits = <<>>
    /\ lookups = <<>>
    /\ statsFile = None
    /\ statsExit = None

\* loadPolyfillMappings throws: polyfills.json is missing or is not JSON.
LoadMappingsFail ==
    /\ statsPc = "load"
    /\ statsPc' = "failed"
    /\ statsExit' = Some(1)
    /\ UNCHANGED <<force, packages, existingStats, stats, packagesToRefresh,
                   processed, retryCount, responses, waits, lookups, statsFile,
                   mainVars, slugVars>>

\* A slip: the stats start empty, as if nothing had been on record.
LoadStatsFromScratch ==
    /\ statsPc = "load"
    /\ \E file \in PolyfillFiles, existing \in ExistingStatsObjects :
          LET pkgs == extractNpmPackages(file)
              refresh == SelectSeq(pkgs, LAMBDA pkg : needsRefresh(pkg, existing, force))
          IN  /\ packages' = pkgs
              /\ existingStats' = existing
              /\ stats' = <<>>
              /\ packagesToRefresh' = refresh
              /\ statsPc' = IF Len(refresh) = 0 THEN "write" ELSE "lookup"
    /\ UNCHANGED <<force, processed, retryCount, responses, waits, lookups, statsFile,
                   statsExit, mainVars, slugVars>>

\* main up to the loop of fetchAllStats: the packages, the existing stats,
\* the packages to refresh.
LoadStats ==
    /\ statsPc = "load"
    /\ \E file \in PolyfillFiles, existing \in ExistingStatsObjects :
          LET pkgs == extractNpmPackages(file)
              refresh == SelectSeq(pkgs, LAMBDA pkg : needsRefresh(pkg, existing, force))
          IN  /\ packages' = pkgs
              /\ existingStats' = existing
              /\ stats' = existing
              /\ packagesToRefresh' = refresh
              /\ statsPc' = IF Len(refresh) = 0 THEN "write" ELSE "lookup"
    /\ UNCHANGED <<force, processed, retryCount, responses, waits, lookups, statsFile,
                   statsExit, mainVars, slugVars>>

\* A slip: a retry is made while retryCount <= MAX_RETRIES.
ShouldRetryOnceMore(response, count) == response.kind = "429" /\ count <= MAX_RETRIES

\* A slip: every status that is not ok is retried.
ShouldRetryAnyStatus(response, count) ==
    response.kind \in {"404", "429", "500"} /\ count < MAX_RETRIES

\* response.status === 429 && retryCount < MAX_RETRIES (a 404 has returned
\* before this test).
ShouldRetry(response, count) == response.kind = "429" /\ count < MAX_RETRIES

\* fetchPackageStats: a request that is retried; the call waits and calls
\* itself.
RetryRequest ==
    /\ statsPc = "lookup"
    /\ \E response \in Responses :
          /\ ShouldRetry(response, retryCount)
          /\ responses' = Append(responses, response)
    /\ waits' = Append(waits, DELAY_MS * (retryCount + 2))
    /\ retryCount' = retryCount + 1
    /\ UNCHANGED <<statsPc, force, packages, existingStats, stats, packagesToRefresh,
                   processed, lookups, statsFile, statsExit, mainVars, slugVars>>

\* fetchPackageStats: a request after which the lookup returns, and the rest
\* of the loop body of fetchAllStats. A status 200 without a downloads
\* property returns undefined, and downloads.toLocaleString() throws.
FinalRequest ==
    /\ statsPc = "lookup"
    /\ \E response \in Responses :
          LET packageName == packagesToRefresh[processed + 1]
          IN  /\ ~ShouldRetry(response, retryCount)
              /\ lookups' = Append(lookups, [name |-> packageName,
                                             responses |-> Append(responses, response),
                                             waits |-> waits])
              /\ IF response.kind = "200-no-downloads"
                 THEN /\ statsPc' = "failed"
                      /\ statsExit' = Some(1)
                      /\ UNCHANGED <<stats, processed>>
                 ELSE /\ stats' = RecordLookup(stats, packageName, response)
                      /\ processed' = processed + 1
                      /\ statsPc' = IF processed + 1 < Len(packagesToRefresh)
                                    THEN "lookup" ELSE "write"
                      /\ UNCHANGED statsExit
    /\ retryCount' = 0
    /\ responses' = <<>>
    /\ waits' = <<>>
    /\ UNCHANGED <<force, packages, existingStats, packagesToRefresh, statsFile,
                   mainVars, slugVars>>

\* npm-stats.json is written and the process ends.
WriteStats ==
    /\ statsPc = "write"
    /\ statsFile' = Some(stats)
    /\ statsExit' = Some(0)
    /\ statsPc' = "done"
    /\ UNCHANGED <<force, packages, existingStats, stats, packagesToRefresh,
                   processed, retryCount, responses, waits, lookups, mainVars, slugVars>>

StatsInit == StatsMainInit /\ MainIdle /\ SlugIdle

StatsNext ==
    \/ LoadMappingsFail
    \/ LoadStats
    \/ RetryRequest
    \/ FinalRequest
    \/ WriteStats

SpecStats == StatsInit /\ [][StatsNext]_vars

-----------------------------------------------------------------------------

Init == MainInit /\ SlugIdle /\ StatsIdle

Next ==
    \/ FetchOk
    \/ FetchFail
    \/ EnsureCached
    \/ CloneOk
    \/ CloneFail
    \/ SelectSlugs
    \/ FindPolyfills
    \/ CollectFeature
    \/ ReturnSorted
    \/ LoadMissing
    \/ LoadMalformed
    \/ LoadParsed
    \/ MergeOverrides
    \/ MkdirFail
    \/ WriteOutput

Spec == Init /\ [][Next]_vars

\* The pipeline run again and again on one environment: a remote mapping
\* with no entry, one slug or two slugs for each feature, the slug of the
\* compatibility data, a page for each of the two directories (missing,
\* without a "See also" section, or with one), and an override file that is
\* missing, malformed, or holds one entry at most.
MaxRuns == 2

RerunPages ==
    { None,
      Some([seeAlso |-> FALSE, items |-> <<ItemNpm>>]),
      Some([seeAlso |-> TRUE, items |-> <<ItemNpm>>]),
      Some([seeAlso |-> TRUE, items |-> <<ItemNpm, ItemOther>>]) }

RerunFiles ==
    { [state |-> "missing", entries |-> <<>>], [state |-> "malformed", entries |-> <<>>] }
    \cup { [state |-> "parsed", entries |-> es] : es \in { p \in ParsedObjects : Len(p) <= 1 } }

RerunEnvs ==
    [docs : [1..Len(Catalog) -> {None, Some(<<DocsSlug>>), Some(<<DocsSlug, BcdSlug>>)}],
     compat : {[i \in 1..Len(Catalog) |-> <<Some(UrlDocsEnUs)>>]},
     pages : [{slugToPath(DocsSlug), slugToPath(BcdSlug)} -> RerunPages],
     file : RerunFiles]

RerunInit ==
    /\ SlugIdle
    /\ StatsIdle
    /\ pc = "fetch"
    /\ fetchOk = "pending"
    /\ snapshot = "present"
    /\ clones = 0
    /\ snapshotItems = {ItemNpm, ItemOther}
    /\ fi = 1
    /\ slugs = <<>>
    /\ si = 1
    /\ reads = 0
    /\ allPolyfillLinks = <<>>
    /\ selected = None
    /\ mappings = <<>>
    /\ discovered = <<>>
    /\ overridesFile = [state |-> "unread", entries |-> <<>>]
    /\ overrides = <<>>
    /\ output = PreviousOutput
    /\ writes = 0
    /\ exitCode = None
    /\ env \in { Some(e) : e \in RerunEnvs }
    /\ run = 1
    /\ history = <<>>

\* The pipeline is started again: a new process, with polyfills.json, the
\* snapshot and the override file as the run before left them.
Restart ==
    /\ pc = "done"
    /\ run < MaxRuns
    /\ run' = run + 1
    /\ history' = Append(history, Get(output))
    /\ pc' = "fetch"
    /\ fetchOk' = "pending"
    /\ clones' = 0
    /\ fi' = 1
    /\ slugs' = <<>>
    /\ si' = 1
    /\ reads' = 0
    /\ allPolyfillLinks' = <<>>
    /\ selected' = None
    /\ mappings' = <<>>
    /\ discovered' = <<>>
    /\ overridesFile' = [state |-> "unread", entries |-> <<>>]
    /\ overrides' = <<>>
    /\ writes' = 0
    /\ exitCode' = None
    /\ UNCHANGED <<snapshot, snapshotItems, output, env, slugVars, statsVars>>

RerunNext ==
    \/ FetchOk
    \/ EnsureCached
    \/ SelectSlugs
    \/ FindPolyfills
    \/ CollectFeature
    \/ ReturnSorted
    \/ LoadMissing
    \/ LoadMalformed
    \/ LoadParsed
    \/ MergeOverrides
    \/ WriteOutput
    \/ Restart

SpecRerun == RerunInit /\ [][RerunNext]_vars

\* generateMappings on one feature with two slugs: the page of the first
\* slug holds any list items of FindItems, the page of the second is missing
\* or repeats a link; the other feature of the catalog has no slug.
FeaturePagesSecond ==
    { None,
      Some([seeAlso |-> TRUE, items |-> <<ItemNpmAgain>>]),
      Some([seeAlso |-> TRUE, items |-> <<ItemGithub>>]) }

FeatureEnvs ==
    [docs : {[i \in 1..Len(Catalog) |-> IF i = 1 THEN Some(<<DocsSlug, BcdSlug>>) ELSE None]},
     compat : {[i \in 1..Len(Catalog) |-> <<>>]},
     pages : { [q \in {slugToPath(DocsSlug), slugToPath(BcdSlug)} |->
                   IF q = slugToPath(DocsSlug) THEN first ELSE second] :
                 first \in Pages(FindItems), second \in FeaturePagesSecond },
     file : {[state |-> "missing", entries |-> <<>>]}]

FeatureInit ==
    /\ SlugIdle
    /\ StatsIdle
    /\ pc = "generate"
    /\ fetchOk = "ok"
    /\ snapshot = "present"
    /\ clones = 0
    /\ snapshotItems = FindItems
    /\ fi = 1
    /\ slugs = <<>>
    /\ si = 1
    /\ reads = 0
    /\ allPolyfillLinks = <<>>
    /\ selected = None
    /\ mappings = <<>>
    /\ discovered = <<>>
    /\ overridesFile = [state |-> "unread", entries |-> <<>>]
    /\ overrides = <<>>
    /\ output = PreviousOutput
    /\ writes = 0
    /\ exitCode = None
    /\ env \in { Some(e) : e \in FeatureEnvs }
    /\ run = 1
    /\ history = <<>>

FeatureNext ==
    \/ SelectSlugs
    \/ FindPolyfills
    \/ CollectFeature
    \/ ReturnSorted

SpecFeature == FeatureInit /\ [][FeatureNext]_vars

\* generateMappings on its own, over pages that hold every list item of
\* PageItems.
DiscoverInit ==
    /\ SlugIdle
    /\ StatsIdle
    /\ pc = "generate"
    /\ fetchOk = "ok"
    /\ snapshot = "present"
    /\ clones = 0
    /\ snapshotItems = PageItems
    /\ fi = 1
    /\ slugs = <<>>
    /\ si = 1
    /\ reads = 0
    /\ allPolyfillLinks = <<>>
    /\ selected = None
    /\ mappings = <<>>
    /\ discovered = <<>>
    /\ overridesFile = [state |-> "unread", entries |-> <<>>]
    /\ overrides = <<>>
    /\ output = PreviousOutput
    /\ writes = 0
    /\ exitCode = None
    /\ env = None
    /\ run = 1
    /\ history = <<>>

DiscoverNext ==
    \/ SelectSlugs
    \/ FindPolyfills
    \/ CollectFeature
    \/ ReturnSorted

SpecDiscover == DiscoverInit /\ [][DiscoverNext]_vars

\* slugToPath on its own, over the slugs of SlugInputs.
SlugStart == SlugInit /\ MainIdle /\ StatsIdle

SpecSlug == SlugStart /\ [][SlugNext]_vars

-----------------------------------------------------------------------------
(* Properties *)

\* The entries of the parsed override file, metadata keys included.
ParsedEntries == overridesFile.entries

IsMetadataKey(k) == Len(k) > 0 /\ k[1] = "_"

\* The mapping written to polyfills.json.
Final == Get(output)

\* The auto-discovered fallbacks of a feature, none when it was not discovered.
DiscoveredList(k) == IF ObjHas(discovered, k) THEN ObjGet(discovered, k) ELSE <<>>

AllKeys == {Catalog[i] : i \in 1..Len(Catalog)} \cup OverrideKeys

NoValue == [exclude |-> FALSE, replace |-> FALSE, fallbacks |-> None]

DistinctUrls(fallbacks) ==
    \A i, j \in 1..Len(fallbacks) : i # j => fallbacks[i].url # fallbacks[j].url

\* C1: a feature whose override entry has exclude: true is absent from the
\* written mapping, whatever was discovered for it and whatever other fields
\* the entry carries.
C1_ExcludedAbsent ==
    pc = "done" =>
        \A i \in 1..Len(ParsedEntries) :
            ParsedEntries[i].value.exclude => ~ObjHas(Final, ParsedEntries[i].key)

\* A discovered feature is excluded by an entry that also carries replace and
\* fallbacks.
C1_Witness ==
    /\ pc = "done"
    /\ \E i \in 1..Len(ParsedEntries) :
          /\ ParsedEntries[i].value.exclude
          /\ ParsedEntries[i].value.replace
          /\ IsSome(ParsedEntries[i].value.fallbacks)
          /\ Len(Get(ParsedEntries[i].value.fallbacks)) > 0
          /\ ObjHas(discovered, ParsedEntries[i].key)

\* C2: a feature whose override entry has replace: true and fallbacks F, and
\* no exclude, is written with exactly the list F, the empty list included.
C2_ReplacedExactly ==
    pc = "done" =>
        \A i \in 1..Len(ParsedEntries) :
            LET e == ParsedEntries[i]
            IN  (/\ ~IsMetadataKey(e.key)
                 /\ ~e.value.exclude
                 /\ e.value.replace
                 /\ IsSome(e.value.fallbacks))
                => /\ ObjHas(Final, e.key)
                   /\ ObjGet(Final, e.key) = Get(e.value.fallbacks)

\* A discovered feature is replaced by the empty list and an undiscovered one
\* by a list of two.
C2_Witness ==
    /\ pc = "done"
    /\ \E i, j \in 1..Len(ParsedEntries) :
          /\ ~ParsedEntries[i].value.exclude
          /\ ParsedEntries[i].value.replace
          /\ ParsedEntries[i].value.fallbacks = Some(<<>>)
          /\ ObjHas(discovered, ParsedEntries[i].key)
          /\ ~ParsedEntries[j].value.exclude
          /\ ParsedEntries[j].value.replace
          /\ ParsedEntries[j].value.fallbacks = Some(<<OverrideFallbackOwn, OverrideFallbackSame>>)
          /\ ~IsMetadataKey(ParsedEntries[j].key)
          /\ ~ObjHas(discovered, ParsedEntries[j].key)

\* C3: a feature whose override entry has fallbacks F and neither flag is
\* written with its discovered list followed by F, nothing dropped.
C3_AugmentedAppends ==
    pc = "done" =>
        \A i \in 1..Len(ParsedEntries) :
            LET e == ParsedEntries[i]
            IN  (/\ ~IsMetadataKey(e.key)
                 /\ ~e.value.exclude
                 /\ ~e.value.replace
                 /\ IsSome(e.value.fallbacks))
                => /\ ObjHas(Final, e.key)
                   /\ ObjGet(Final, e.key) = DiscoveredList(e.key) \o Get(e.value.fallbacks)
                   /\ Len(ObjGet(Final, e.key)) =
                         Len(DiscoveredList(e.key)) + Len(Get(e.value.fallbacks))

\* A discovered feature is augmented with a fallback whose url it already has.
C3_Witness ==
    /\ pc = "done"
    /\ \E i \in 1..Len(ParsedEntries) :
          LET e == ParsedEntries[i]
          IN  /\ ~e.value.exclude
              /\ ~e.value.replace
              /\ IsSome(e.value.fallbacks)
              /\ ObjHas(discovered, e.key)
              /\ \E a \in 1..Len(DiscoveredList(e.key)), f \in 1..Len(Get(e.value.fallbacks)) :
                    DiscoveredList(e.key)[a].url = Get(e.value.fallbacks)[f].url
              /\ ~DistinctUrls(ObjGet(Final, e.key))

\* C4: the keys of the written mapping are in ascending order.
C4_KeysSorted == pc = "done" => IsSorted(ObjKeys(Final))

\* C5: a malformed override file aborts the run: nothing is written and the
\* process does not exit with code 0.
C5_MalformedAborts ==
    overridesFile.state = "malformed" => (writes = 0 /\ exitCode # Some(0))

\* C6: a feature with no override entry, or with an entry that has none of
\* exclude, replace and fallbacks, is written with its discovered list; with
\* no override file the run succeeds and writes the discovered mapping.
C6_Untouched ==
    pc = "done" =>
        /\ overridesFile.state \in {"missing", "parsed"} =>
              \A k \in AllKeys :
                  (\A i \in 1..Len(ParsedEntries) :
                      ParsedEntries[i].key = k => ParsedEntries[i].value = NoValue)
                  => /\ ObjHas(Final, k) <=> ObjHas(discovered, k)
                     /\ ObjHas(Final, k) => ObjGet(Final, k) = ObjGet(discovered, k)
        /\ overridesFile.state = "missing" =>
              /\ Final = discovered
              /\ exitCode = Some(0)

\* Two features are discovered; one has an entry without any field, the other
\* has no entry, and a further entry adds a feature.
C6_Witness ==
    /\ pc = "done"
    /\ Len(discovered) = 2
    /\ \E i, j \in 1..Len(ParsedEntries) :
          /\ ParsedEntries[i].value = NoValue
          /\ ObjHas(discovered, ParsedEntries[i].key)
          /\ ~IsMetadataKey(ParsedEntries[j].key)
          /\ ~ObjHas(discovered, ParsedEntries[j].key)
          /\ ObjHas(Final, ParsedEntries[j].key)

\* C7: with replace: true and no exclude, no discovered fallback survives:
\* every fallback written for the feature is one of the entry's own.
C7_ReplaceDiscardsDiscovered ==
    pc = "done" =>
        \A i \in 1..Len(ParsedEntries) :
            LET e == ParsedEntries[i]
                own == IF IsSome(e.value.fallbacks) THEN Get(e.value.fallbacks) ELSE <<>>
            IN  (~IsMetadataKey(e.key) /\ ~e.value.exclude /\ e.value.replace)
                => (ObjHas(Final, e.key) =>
                      \A n \in 1..Len(ObjGet(Final, e.key)) :
                          \E f \in 1..Len(own) : own[f] = ObjGet(Final, e.key)[n])

\* C8: a key of the override file that begins with an underscore is never
\* written as a feature, and a file with only such keys changes nothing.
C8_MetadataIgnored ==
    pc = "done" =>
        /\ \A i \in 1..Len(ParsedEntries) :
              IsMetadataKey(ParsedEntries[i].key) => ~ObjHas(Final, ParsedEntries[i].key)
        /\ (/\ overridesFile.state = "parsed"
            /\ \A i \in 1..Len(ParsedEntries) : IsMetadataKey(ParsedEntries[i].key))
           => Final = discovered

\* A metadata key carries fallbacks and no exclude, and features are discovered.
C8_Witness ==
    /\ pc = "done"
    /\ Len(discovered) > 0
    /\ \A i \in 1..Len(ParsedEntries) : IsMetadataKey(ParsedEntries[i].key)
    /\ \E i \in 1..Len(ParsedEntries) :
          /\ ~ParsedEntries[i].value.exclude
          /\ IsSome(ParsedEntries[i].value.fallbacks)
          /\ Len(Get(ParsedEntries[i].value.fallbacks)) > 0

\* C9: no fallback list of the mapping that generateMappings builds and
\* returns holds two entries with the same url.
C9_DiscoveredUrlsDistinct ==
    /\ \A i \in 1..Len(discovered) : DistinctUrls(discovered[i].value)
    /\ pc \in {"generate", "slugs"} =>
          \A i \in 1..Len(mappings) : DistinctUrls(mappings[i].value)

\* A feature with two slugs was collected: the links found hold one url three
\* times or more, so on both pages, and its fallback list holds it once.
C9_Witness ==
    /\ pc = "generate"
    /\ fi > 1
    /\ Len(slugs) = 2
    /\ ObjHas(mappings, Catalog[fi - 1])
    /\ \E i, j, k \in 1..Len(allPolyfillLinks) :
          /\ i < j /\ j < k
          /\ allPolyfillLinks[i].url = allPolyfillLinks[j].url
          /\ allPolyfillLinks[j].url = allPolyfillLinks[k].url
    /\ \E i \in 1..Len(allPolyfillLinks) :
          allPolyfillLinks[i].url # allPolyfillLinks[1].url
    /\ Len(ObjGet(mappings, Catalog[fi - 1])) = 2

HasUnderscore(s) == \E i \in 1..Len(s) : s[i] = "_"

\* C10 as stated: no slug of the universe that differs from the converted one
\* by more than letter case (so in a token or in an escape substring written
\* out) has the same path.
C10_InjectiveOnAllSlugs ==
    spc = "converted" =>
        \A t \in SlugInputs :
            SlugLowerTable[t] # toLowerCase(slug) => SlugPathTable[t] # path

\* C10, amended: among the slugs that hold no underscore, no slug that differs
\* from the converted one by more than letter case has the same path.
C10_InjectiveWithoutUnderscore ==
    (spc = "converted" /\ ~HasUnderscore(slug)) =>
        \A t \in SlugInputs :
            (~HasUnderscore(t) /\ SlugLowerTable[t] # toLowerCase(slug))
            => SlugPathTable[t] # path

\* A slug with a double colon and no underscore is converted, and the slug
\* with a single colon in its place gets another path.
C10_Witness ==
    /\ spc = "converted"
    /\ ~HasUnderscore(slug)
    /\ Includes(slug, <<":", ":">>)
    /\ Includes(path, DoubleColonEscape)
    /\ \E t \in SlugInputs :
          /\ ~HasUnderscore(t)
          /\ Includes(t, <<":">>)
          /\ ~Includes(t, <<":", ":">>)
          /\ ReplaceAll(slug, <<":", ":">>, <<":">>) = t
          /\ SlugPathTable[t] # path

\* The rewriting of a slug in one pass from the left, where at each place the
\* double colon is tried before the single colon.
RECURSIVE EscapeFrom(_, _)
EscapeFrom(s, i) ==
    IF i > Len(s) THEN <<>>
    ELSE IF MatchesAt(s, <<":", ":">>, i) THEN DoubleColonEscape \o EscapeFrom(s, i + 2)
    ELSE IF s[i] = ":" THEN ColonEscape \o EscapeFrom(s, i + 1)
    ELSE IF s[i] = "*" THEN StarEscape \o EscapeFrom(s, i + 1)
    ELSE <<LowerChar(s[i])>> \o EscapeFrom(s, i + 1)

IsUpper(c) == CharCode(c) >= 65 /\ CharCode(c) <= 90

\* C11: slugToPath of a path it returned is that path; a path holds no colon,
\* no star and no upper-case letter; and every double colon of the slug, taken
\* from the left, is written as one double-colon escape, never as two colon
\* escapes.
C11_IdempotentAndEscaped ==
    /\ spc \in {"converted", "reconverted"} =>
          /\ \A i \in 1..Len(path) : path[i] # ":" /\ path[i] # "*" /\ ~IsUpper(path[i])
          /\ path = EscapeFrom(slug, 1)
          /\ Includes(slug, <<":", ":">>) => Includes(path, DoubleColonEscape)
    /\ spc = "reconverted" => repath = path

\* A slug with a double colon and an upper-case letter was converted twice.
C11_Witness ==
    /\ spc = "reconverted"
    /\ Includes(slug, <<":", ":">>)
    /\ \E i \in 1..Len(slug) : IsUpper(slug[i])
    /\ Includes(path, DoubleColonEscape)
    /\ path # slug
    /\ repath = path

\* C12: a feature is skipped exactly when neither source yields a slug: the
\* remote mapping has no slug for it and the compatibility data has none.
C12_SkippedIffNoSlug ==
    IsSome(selected) =>
        LET docs == Get(selected).docs
            bcdSlug == Get(selected).bcdSlug
            docsYield == IsSome(docs) /\ Len(Get(docs)) > 0
            bcdYields == IsSome(bcdSlug) /\ Len(Get(bcdSlug)) > 0
        IN  Get(selected).skipped <=> (~docsYield /\ ~bcdYields)

\* C13: when the fetch of the remote mapping is not ok the process exits with
\* code 1 and the run has cloned nothing, read no page, loaded no override file
\* and written nothing; nothing further happens.
C13_FetchFailureIsFatal ==
    fetchOk = "failed" =>
        /\ exitCode = Some(1)
        /\ clones = 0
        /\ reads = 0
        /\ overridesFile.state = "unread"
        /\ writes = 0
        /\ output = PreviousOutput
        /\ ~ENABLED Next

\* The fetch failed while the snapshot directory was absent.
C13_Witness ==
    /\ fetchOk = "failed"
    /\ snapshot = "absent"
    /\ exitCode = Some(1)

C15_CloneIffAbsent ==
    /\ [](/\ clones <= 1
          /\ reads > 0 => snapshot = "present"
          /\ pc \in {"fetch", "ensure"} => reads = 0
          /\ (clones = 1 /\ snapshot = "absent") =>
                (pc = "failed" /\ exitCode = Some(1) /\ reads = 0 /\ writes = 0))
    /\ [][/\ (pc = "ensure" /\ snapshot = "absent") => clones' = clones + 1
          /\ (pc = "ensure" /\ snapshot = "present") =>
                (clones' = clones /\ snapshot' = snapshot /\ pc' = "generate")
          /\ pc # "ensure" => (clones' = clones /\ snapshot' = snapshot)]_vars

\* The directory was absent, one clone made it, and pages were read after it.
C15_Witness ==
    /\ clones = 1
    /\ snapshot = "present"
    /\ reads > 0
    /\ pc = "done"

\* The last response of a lookup that returned.
LastResponse(l) == l.responses[Len(l.responses)]

\* A package has no record, or a record without a timestamp or with one that
\* lies more than a week back, or every package is forced.
IsStale(pkg) ==
    \/ force
    \/ ~ObjHas(existingStats, pkg)
    \/ ~IsSome(ObjGet(existingStats, pkg).lastModified)
    \/ Get(ObjGet(existingStats, pkg).lastModified) + ONE_WEEK_MS < Now

WasLookedUp(pkg) == \E i \in 1..Len(lookups) : lookups[i].name = pkg

PackageSet == { packages[i] : i \in 1..Len(packages) }

\* C16: the packages chosen for a lookup are the stale ones; every request is
\* for a stale package; a package that is not stale keeps its record; a run
\* that reaches the write has looked up every stale package; and with no
\* stale package no request is made.
C16_QueriedIffStale ==
    /\ \A pkg \in PackageSet :
          (\E i \in 1..Len(packagesToRefresh) : packagesToRefresh[i] = pkg) <=> IsStale(pkg)
    /\ \A i \in 1..Len(lookups) : IsStale(lookups[i].name)
    /\ (statsPc = "lookup" /\ retryCount > 0) => IsStale(packagesToRefresh[processed + 1])
    /\ \A pkg \in PackageSet :
          ~IsStale(pkg) =>
              /\ ~WasLookedUp(pkg)
              /\ ObjHas(stats, pkg) /\ ObjGet(stats, pkg) = ObjGet(existingStats, pkg)
              /\ statsPc = "done" => ObjGet(Get(statsFile), pkg) = ObjGet(existingStats, pkg)
    /\ statsPc \in {"write", "done"} => \A pkg \in PackageSet : IsStale(pkg) => WasLookedUp(pkg)
    /\ (\A pkg \in PackageSet : ~IsStale(pkg)) => (lookups = <<>> /\ retryCount = 0)

\* Without --force, a package whose record is exactly one week old was not
\* looked up and one whose record is older was.
C16_Witness ==
    /\ statsPc = "done"
    /\ ~force
    /\ \E p, q \in PackageSet :
          /\ ObjHas(existingStats, p)
          /\ ObjGet(existingStats, p).lastModified = Some(Now - ONE_WEEK_MS)
          /\ ~WasLookedUp(p)
          /\ ObjHas(existingStats, q)
          /\ ObjGet(existingStats, q).lastModified = Some(Now - ONE_WEEK_MS - 1)
          /\ WasLookedUp(q)

\* A lookup failed: a network error, a 404, another status that is not ok, or
\* a 429 on the last attempt.
LookupFailed(l) == LastResponse(l).kind \in {"network-error", "404", "429", "500"}

\* C17 as stated: the written record of a package whose lookup failed has
\* downloads: null.
C17_FailedLookupIsNull ==
    statsPc = "done" =>
        \A i \in 1..Len(lookups) :
            LookupFailed(lookups[i]) =>
                /\ ObjHas(Get(statsFile), lookups[i].name)
                /\ ObjGet(Get(statsFile), lookups[i].name).downloads = None

\* C17, amended: the written record of a package whose lookup failed is its
\* record from before the run when it had one, and a record with
\* downloads: null and the time of the run when it had none.
C17_FailedLookupNullOrKept ==
    statsPc = "done" =>
        \A i \in 1..Len(lookups) :
            LookupFailed(lookups[i]) =>
                /\ ObjHas(Get(statsFile), lookups[i].name)
                /\ ObjGet(Get(statsFile), lookups[i].name) =
                      IF ObjHas(existingStats, lookups[i].name)
                      THEN ObjGet(existingStats, lookups[i].name)
                      ELSE [downloads |-> None, lastModified |-> Some(Now)]

\* A lookup failed for a package with a download count on record, and one
\* failed after two retries for a package without a record.
C17_Witness ==
    /\ statsPc = "done"
    /\ \E i, j \in 1..Len(lookups) :
          /\ LookupFailed(lookups[i])
          /\ ObjHas(existingStats, lookups[i].name)
          /\ ObjGet(existingStats, lookups[i].name).downloads = Some(5)
          /\ LookupFailed(lookups[j])
          /\ LastResponse(lookups[j]).kind = "429"
          /\ ~ObjHas(existingStats, lookups[j].name)

\* C18: whatever a lookup met, the run does not end with exit code 1.
C18_NoLookupAborts == Len(lookups) > 0 => statsExit # Some(1)

\* C19: a lookup makes three requests at most; every response it retried
\* after was a 429; the waits are DELAY_MS*2 and then DELAY_MS*3; and a lookup
\* that met a 429 and then a download count leaves that count in the record
\* of the package, which is the record written.
C19_BoundedRetries ==
    /\ retryCount <= MAX_RETRIES
    /\ Len(responses) = retryCount /\ Len(waits) = retryCount
    /\ \A i \in 1..Len(responses) : responses[i].kind = "429"
    /\ \A i \in 1..Len(waits) : waits[i] = DELAY_MS * (i + 1)
    /\ \A i \in 1..Len(lookups) :
          LET l == lookups[i]
          IN  /\ Len(l.responses) <= MAX_RETRIES + 1
              /\ Len(l.responses) <= 3
              /\ Len(l.waits) = Len(l.responses) - 1
              /\ \A k \in 1..(Len(l.responses) - 1) : l.responses[k].kind = "429"
              /\ \A k \in 1..Len(l.waits) : l.waits[k] = DELAY_MS * (k + 1)
              /\ \A k \in 1..(Len(l.waits) - 1) : l.waits[k] < l.waits[k + 1]
              /\ (Len(l.responses) > 1 /\ LastResponse(l).kind = "200-count") =>
                    /\ ObjHas(stats, l.name)
                    /\ ObjGet(stats, l.name).downloads = LastResponse(l).downloads
                    /\ statsPc = "done" =>
                          ObjGet(Get(statsFile), l.name).downloads = LastResponse(l).downloads

\* The lookup of the scoped package met 429 twice and then a count, and the
\* lookup of another met 429 once and then a 404.
C19_Witness ==
    /\ statsPc = "done"
    /\ \E i, j \in 1..Len(lookups) :
          /\ lookups[i].name = PackageScoped
          /\ Len(lookups[i].responses) = 3
          /\ lookups[i].waits = <<DELAY_MS * 2, DELAY_MS * 3>>
          /\ LastResponse(lookups[i]) = [kind |-> "200-count", downloads |-> Some(9)]
          /\ ObjGet(Get(statsFile), PackageScoped).downloads = Some(9)
          /\ Len(lookups[j].responses) = 2
          /\ LastResponse(lookups[j]).kind = "404"

\* C20: no step changes the environment, the override file included; a run
\* writes the mapping that every earlier run on it wrote; and the list written
\* for a feature with an augment override is its discovered list followed by
\* the override's fallbacks, once, in every run.
C20_RegenerationIdempotent ==
    /\ [](pc = "done" =>
            /\ \A i \in 1..Len(history) : Get(output) = history[i]
            /\ \A i \in 1..Len(overridesFile.entries) :
                  LET e == overridesFile.entries[i]
                  IN  (/\ ~IsMetadataKey(e.key)
                       /\ ~e.value.exclude
                       /\ ~e.value.replace
                       /\ IsSome(e.value.fallbacks))
                      => ObjGet(Get(output), e.key) =
                            DiscoveredList(e.key) \o Get(e.value.fallbacks))
    /\ [](overridesFile.state # "unread" => overridesFile = Get(env).file)
    /\ [][env' = env]_vars

\* The second run has written; a discovered feature has an augment override
\* with fallbacks, and what the first run wrote is not what the file held
\* before it.
C20_Witness ==
    /\ pc = "done"
    /\ run = 2
    /\ Len(history) = 1
    /\ history[1] # Get(PreviousOutput)
    /\ \E i \in 1..Len(overridesFile.entries) :
          LET e == overridesFile.entries[i]
          IN  /\ ~e.value.exclude
              /\ ~e.value.replace
              /\ IsSome(e.value.fallbacks)
              /\ Len(Get(e.value.fallbacks)) > 0
              /\ ObjHas(discovered, e.key)
              /\ Len(ObjGet(Get(output), e.key)) =
                    Len(ObjGet(discovered, e.key)) + Len(Get(e.value.fallbacks))

\* The page that the next read of the slug loop meets, in a fixed environment.
NextPage == Get(env).pages[slugToPath(slugs[si])]

\* C21: a read that meets no file, or a page without a "See also" section,
\* adds no link, raises nothing and moves on to the next slug; the step after
\* the last slug goes on with the feature loop.
C21_MissingPageIsEmpty ==
    [][(/\ pc = "slugs"
        /\ si <= Len(slugs)
        /\ (~IsSome(NextPage) \/ ~Get(NextPage).seeAlso))
       => /\ allPolyfillLinks' = allPolyfillLinks
          /\ si' = si + 1
          /\ pc' = "slugs"
          /\ exitCode' = None
          /\ mappings' = mappings]_vars

\* The first of two slugs met no file and the second a page without the
\* section: no link was found, and the feature loop is at the next feature.
C21_Witness ==
    /\ pc = "generate"
    /\ fi = 2
    /\ Len(slugs) = 2
    /\ reads = 2
    /\ ~IsSome(Get(env).pages[slugToPath(slugs[1])])
    /\ IsSome(Get(env).pages[slugToPath(slugs[2])])
    /\ ~Get(Get(env).pages[slugToPath(slugs[2])]).seeAlso
    /\ Len(Get(Get(env).pages[slugToPath(slugs[2])]).items) > 0
    /\ allPolyfillLinks = <<>>
    /\ exitCode = None

\* The host of a url: what stands between "://" and the next "/", "?", "#"
\* or ":".
Host(url) ==
    LET starts == { i \in 1..Len(url) : MatchesAt(url, <<":", "/", "/">>, i) }
    IN  IF starts = {} THEN <<>>
        ELSE LET from == SetMin(starts) + 3
                 stops == { j \in from..Len(url) : url[j] \in {"/", "?", "#", ":"} }
                 to == IF stops = {} THEN Len(url) ELSE SetMin(stops) - 1
             IN  SubSeq(url, from, to)

\* The page of the k-th slug of the feature at hand.
PageOfSlug(k) == Get(env).pages[slugToPath(slugs[k])]

\* The links of the "See also" sections read so far for the feature at hand,
\* each with its list item.
LinksRead ==
    UNION { UNION { { [item |-> Get(PageOfSlug(k)).items[n],
                       link |-> Get(PageOfSlug(k)).items[n].links[m]] :
                        m \in 1..Len(Get(PageOfSlug(k)).items[n].links) } :
                    n \in 1..Len(Get(PageOfSlug(k)).items) } :
            k \in { j \in 1..(si - 1) : IsSome(PageOfSlug(j)) /\ Get(PageOfSlug(j)).seeAlso } }

\* The link of a list item is among the candidates.
Emitted(o) ==
    \E i \in 1..Len(allPolyfillLinks) :
        allPolyfillLinks[i] = [url |-> o.link.url, text |-> ItemText(o.item)]

HasPolyfillWord(s) == Includes(toLowerCase(s), PolyfillWord)

\* C22: a link of a "See also" section whose host is not the documentation
\* site is a candidate exactly when its url holds the word polyfill in any
\* case, or its list item's block does, or its url is one of the package
\* registry.
C22_ClassifiedByWordOrRegistry ==
    pc = "slugs" =>
        \A o \in LinksRead :
            (IsHttp(o.link.url) /\ Host(o.link.url) # MdnHost)
            => (Emitted(o) <=> \/ HasPolyfillWord(o.link.url)
                               \/ HasPolyfillWord(ItemMarkdown(o.item))
                               \/ Includes(o.link.url, NpmPrefix))

\* C23: no candidate is hosted by the documentation site, and a link of
\* another host whose url holds the word polyfill is a candidate, whatever
\* else its url holds.
C23_OnlyDocsHostDropped ==
    pc = "slugs" =>
        /\ \A i \in 1..Len(allPolyfillLinks) : Host(allPolyfillLinks[i].url) # MdnHost
        /\ \A o \in LinksRead :
              (IsHttp(o.link.url) /\ Host(o.link.url) # MdnHost /\ HasPolyfillWord(o.link.url))
              => Emitted(o)

\* The url holds "npmjs.com/package/" followed by a character of a name.
NpmPattern(url) ==
    \E i \in 1..Len(url) :
        /\ MatchesAt(url, NpmPrefix, i)
        /\ i + Len(NpmPrefix) <= Len(url)
        /\ url[i + Len(NpmPrefix)] \notin {"/", "?", "#"}

\* The url holds "github.com/", an owner, a "/" and a character of a name.
GithubPattern(url) ==
    \E i \in 1..Len(url) : \E j \in (i + Len(GithubPrefix) + 1)..(Len(url) - 1) :
        /\ MatchesAt(url, GithubPrefix, i)
        /\ \A k \in (i + Len(GithubPrefix))..(j - 1) : url[k] # "/"
        /\ url[j] = "/"
        /\ url[j + 1] \notin {"/", "?", "#"}

\* The fallbacks collected for the first feature of the catalog.
FeatureFallbacks == IF ObjHas(mappings, Catalog[1]) THEN ObjGet(mappings, Catalog[1]) ELSE <<>>

\* C24: a fallback made from a link has the type polyfill and the link's
\* url, a package name exactly when the url matches the registry pattern and
\* a repository exactly when it matches the owner/repository pattern, without
\* a trailing ".git"; either may be there without the other.
C24_FallbackFields ==
    (pc = "generate" /\ fi = 2) =>
        \A n \in 1..Len(FeatureFallbacks) :
            LET f == FeatureFallbacks[n]
            IN  /\ f.type = "polyfill"
                /\ \E i \in 1..Len(allPolyfillLinks) : allPolyfillLinks[i].url = f.url
                /\ IsSome(f.npm) <=> NpmPattern(f.url)
                /\ IsSome(f.github) <=> GithubPattern(f.url)
                /\ f.url = UrlNpm => (f.npm = Some(<<"i", "o">>) /\ f.github = None)
                /\ f.url = UrlGithub =>
                      (f.npm = None /\ f.github = Some(<<"o", "/", "P", "o", "l", "y", "f", "i", "l", "l">>))
                /\ f.url = UrlBoth =>
                      (f.npm = Some(<<"x">>) /\ f.github = Some(<<"o", "/", "r">>))
                /\ f.url = UrlPlain => (f.npm = None /\ f.github = None)

\* One feature got a fallback with both fields, one with the repository
\* only (its url ends in ".git") and one with neither.
C24_Witness ==
    /\ pc = "generate"
    /\ fi = 2
    /\ Len(FeatureFallbacks) = 3
    /\ \E n \in 1..3 : IsSome(FeatureFallbacks[n].npm) /\ IsSome(FeatureFallbacks[n].github)
    /\ \E n \in 1..3 : FeatureFallbacks[n].url = UrlGithub /\ IsSome(FeatureFallbacks[n].github)
    /\ \E n \in 1..3 : ~IsSome(FeatureFallbacks[n].npm) /\ ~IsSome(FeatureFallbacks[n].github)

FirstIndex(u) == SetMin({ i \in 1..Len(allPolyfillLinks) : allPolyfillLinks[i].url = u })
LastIndex(u) ==
    CHOOSE i \in 1..Len(allPolyfillLinks) :
        /\ allPolyfillLinks[i].url = u
        /\ \A j \in (i + 1)..Len(allPolyfillLinks) : allPolyfillLinks[j].url # u

\* C27: the candidates of a feature are those of its pages in slug order;
\* a url found more than once gives one fallback, the fallbacks stand in the
\* order of the urls' first occurrences, and the description of each is the
\* text of the url's last occurrence.
C27_FirstPlaceLastText ==
    (pc = "generate" /\ fi = 2) =>
        /\ allPolyfillLinks = findPolyfills(PageOfSlug(1)) \o findPolyfills(PageOfSlug(2))
        /\ \A i \in 1..Len(allPolyfillLinks) :
              Cardinality({ n \in 1..Len(FeatureFallbacks) :
                              FeatureFallbacks[n].url = allPolyfillLinks[i].url }) = 1
        /\ \A n \in 1..Len(FeatureFallbacks) :
              /\ \E i \in 1..Len(allPolyfillLinks) : allPolyfillLinks[i].url = FeatureFallbacks[n].url
              /\ FeatureFallbacks[n].description =
                    Some(allPolyfillLinks[LastIndex(FeatureFallbacks[n].url)].text)
              /\ \A m \in (n + 1)..Len(FeatureFallbacks) :
                    FirstIndex(FeatureFallbacks[n].url) < FirstIndex(FeatureFallbacks[m].url)

\* The package's url was found first on the page of the first slug, before
\* another url, and again on the page of the second slug with another text:
\* its fallback comes first and has the second text.
C27_Witness ==
    /\ pc = "generate"
    /\ fi = 2
    /\ Len(allPolyfillLinks) = 3
    /\ allPolyfillLinks[1].url = UrlNpm
    /\ allPolyfillLinks[2].url # UrlNpm
    /\ allPolyfillLinks[3].url = UrlNpm
    /\ allPolyfillLinks[1].text # allPolyfillLinks[3].text
    /\ Len(FeatureFallbacks) = 2
    /\ FeatureFallbacks[1].url = UrlNpm
    /\ FeatureFallbacks[1].description = Some(ItemText(ItemNpmAgain))

\* What a mapping says, whatever the order of its keys.
Content(m) == { <<m[i].key, m[i].value>> : i \in 1..Len(m) }

KeySet(m) == { m[i].key : i \in 1..Len(m) }

Reversed(s) == [i \in 1..Len(s) |-> s[Len(s) + 1 - i]]

\* C25: each override entry leaves the entries of the other features as
\* they were, and the merged mapping says the same when the override entries
\* are taken in the opposite order.
C25_MergeOrderIndependent ==
    pc \in {"write", "done"} =>
        /\ Content(mappings) = Content(MergeAll(discovered, Reversed(overrides)))
        /\ \A k \in 1..Len(overrides) :
              LET before == MergeAll(discovered, SubSeq(overrides, 1, k - 1))
                  after == MergeOverride(before, overrides[k].key, overrides[k].value)
              IN  \A key \in (KeySet(before) \cup KeySet(after)) \ {overrides[k].key} :
                      /\ ObjHas(before, key)
                      /\ ObjHas(after, key)
                      /\ ObjGet(before, key) = ObjGet(after, key)

\* Two override entries of distinct features were merged, a replacement and
\* an exclusion of a discovered feature, and each one changed the mapping.
C25_Witness ==
    /\ pc = "write"
    /\ Len(overrides) = 2
    /\ overrides[1].key # overrides[2].key
    /\ overrides[1].value.replace /\ ~overrides[1].value.exclude
    /\ IsSome(overrides[1].value.fallbacks)
    /\ overrides[2].value.exclude
    /\ ObjHas(discovered, overrides[2].key)
    /\ ~ObjHas(mappings, overrides[2].key)
    /\ ObjHas(mappings, overrides[1].key)
    /\ MergeAll(discovered, SubSeq(overrides, 1, 1)) # discovered

\* The override entry of a feature that makes its list empty: not an
\* exclusion, with an empty list, replacing or for a feature not discovered.
EmptiedByOverride(key) ==
    \E k \in 1..Len(overrides) :
        /\ overrides[k].key = key
        /\ ~overrides[k].value.exclude
        /\ overrides[k].value.fallbacks = Some(<<>>)
        /\ overrides[k].value.replace \/ ~ObjHas(discovered, key)

\* C26: a feature of the mapping under construction, and of the mapping
\* generateMappings returns, has a fallback; a feature written with an empty
\* list has an override entry with an empty list.
C26_DiscoveredNeverEmpty ==
    /\ pc \in {"generate", "slugs"} => \A i \in 1..Len(mappings) : Len(mappings[i].value) >= 1
    /\ \A i \in 1..Len(discovered) : Len(discovered[i].value) >= 1
    /\ (pc = "done" /\ writes = 1) =>
          \A i \in 1..Len(Final) : Len(Final[i].value) = 0 => EmptiedByOverride(Final[i].key)

\* Pages were read, one feature of the catalog is in the mapping that
\* generateMappings returned, and the written file has a feature with an
\* empty list, from an override, beside a feature with fallbacks.
C26_Witness ==
    /\ pc = "done"
    /\ writes = 1
    /\ reads >= 2
    /\ Len(discovered) = 1
    /\ \E i \in 1..Len(Final) : Len(Final[i].value) = 0
    /\ \E i \in 1..Len(Final) : Len(Final[i].value) > 0

\* C28: in the written stats every package of polyfills.json has a record,
\* and the record has a timestamp.
C28_EveryPackageRecorded ==
    statsPc = "done" =>
        \A pkg \in PackageSet :
            /\ ObjHas(Get(statsFile), pkg)
            /\ IsSome(ObjGet(Get(statsFile), pkg).lastModified)

\* A lookup returned null: the request failed, or the answer had no count.
LookupReturnedNull(l) ==
    LastResponse(l).kind \in {"network-error", "404", "429", "500", "200-not-json", "200-null"}

\* The record of a package in the written stats.
Written(pkg) == ObjGet(Get(statsFile), pkg)

\* The package had a record without a timestamp, its lookup returned null,
\* and the record was written as it was.
LegacyKept(pkg) ==
    /\ ObjHas(existingStats, pkg)
    /\ ~IsSome(ObjGet(existingStats, pkg).lastModified)
    /\ \E i \in 1..Len(lookups) : lookups[i].name = pkg /\ LookupReturnedNull(lookups[i])
    /\ Written(pkg) = ObjGet(existingStats, pkg)

\* C28, amended: in the written stats every package of polyfills.json has a
\* record, and the record has a timestamp unless it is a record without one
\* that was kept because the package's lookup returned null.
C28_RecordedOrLegacyKept ==
    statsPc = "done" =>
        \A pkg \in PackageSet :
            /\ ObjHas(Get(statsFile), pkg)
            /\ IsSome(Written(pkg).lastModified) \/ LegacyKept(pkg)

\* The stats were written after two lookups that returned null: a package
\* without a record got a null record with the time of the run, and a
\* package with a record without a timestamp kept it.
C28_Witness ==
    /\ statsPc = "done"
    /\ \E p, q \in PackageSet :
          /\ ~ObjHas(existingStats, p)
          /\ Written(p) = [downloads |-> None, lastModified |-> Some(Now)]
          /\ LegacyKept(q)
          /\ ~IsSome(Written(q).lastModified)

\* npm-stats.json after the run: what was written, or what was there.
FileAfter == IF IsSome(statsFile) THEN Get(statsFile) ELSE existingStats

C30_StrictlySequential ==
    /\ [](/\ pc \notin {"fetch", "failed"} => fetchOk = "ok"
          /\ clones > 0 => fetchOk = "ok"
          /\ reads > 0 => (fetchOk = "ok" /\ snapshot = "present" /\ pc \notin {"fetch", "ensure"})
          /\ pc \in {"generate", "slugs"} => overridesFile.state = "unread"
          /\ overridesFile.state # "unread" => (fi > Len(Catalog) /\ pc \in {"merge", "write", "done", "failed"}))
    /\ [][/\ reads' # reads =>
                /\ reads' = reads + 1
                /\ pc = "slugs" /\ pc' = "slugs"
                /\ si <= Len(slugs) /\ si' = si + 1
                /\ fi' = fi /\ slugs' = slugs
          /\ fi' # fi => (fi' = fi + 1 /\ ((pc = "slugs" /\ si > Len(slugs)) \/ pc = "generate"))
          /\ (clones' # clones \/ snapshot' # snapshot) => (pc = "ensure" /\ reads = 0)
          /\ overridesFile' # overridesFile => (pc = "load" /\ reads' = reads /\ fi > Len(Catalog))]_vars

\* A run that cloned the snapshot, read the pages of a feature with two
\* slugs and parsed the override file has ended.
C30_Witness ==
    /\ pc = "done"
    /\ clones = 1
    /\ reads >= 2
    /\ overridesFile.state = "parsed"
    /\ Len(overrides) > 0
    /\ writes = 1

=============================================================================
